---- MODULE Spec2Model ----
(***************************************************************************)
(* Model of the expense tracker's embedded store (Dexie tables expenses,   *)
(* budgets, categories, settings), the expense hooks, the expense form's   *)
(* onSubmit and the settings page's export / import / clear handlers.      *)
(*                                                                         *)
(* A table is a function from primary key to stored object; a stored       *)
(* object is a function from property name to value, so that an absent     *)
(* property is an absent key.  ISO timestamps are modelled by the value of *)
(* the millisecond clock they were formatted from (toISOString is          *)
(* order-preserving), calendar dates by their 'yyyy-MM-dd' string.         *)
(***************************************************************************)
EXTENDS Integers, Sequences, FiniteSets, TLC

\* expenses, budgets, categories, settings: the four tables
\* clock:  the wall clock, in milliseconds
\* file:   the bundle last written by exportData
\* toast:  the toast the last handler showed (NoToast when it showed none)
\* last:   the last handler that ran, with its arguments and how it ended
\* snap:   the four tables as they were when file was written
\* phase:  how far an export / clear-all / import-of-the-file sequence got
\* inflight: the handlers that have been called and are waiting for a store
\*         call, each with the calls it has still to make, in the order in
\*         which their pending transactions were created
\* issued: the tables as they were when the first of the handlers in flight
\*         was called, the handlers called since, and the contents of the
\*         tables seen while an export is in flight
VARIABLES expenses, budgets, categories, settings, clock, file, toast, last, snap, phase,
          inflight, issued

vars == <<expenses, budgets, categories, settings, clock, file, toast, last, snap, phase,
          inflight, issued>>

\* what a handler that runs on its own leaves alone
async == <<inflight, issued>>

store == <<expenses, budgets, categories, settings>>

\* ------------------------------------------------------------------------
\* Bounds of the model
\* ------------------------------------------------------------------------

\* milliseconds the clock advances past the start of a run
MaxClock == 1

\* days that pass after the Sunday on which a run of the calendar starts
MaxDays == 2

\* values crypto.randomUUID() can return in the model
UuidPool == {"u1", "u2"}

\* ------------------------------------------------------------------------
\* Objects
\* ------------------------------------------------------------------------

EmptyTable == << >>

Merge(obj, changes) ==
  [k \in (DOMAIN obj) \cup (DOMAIN changes) |->
     IF k \in DOMAIN changes THEN changes[k] ELSE obj[k]]

Restrict(obj, keys) == [k \in (DOMAIN obj) \cap keys |-> obj[k]]

Has(obj, k) == k \in DOMAIN obj

\* ------------------------------------------------------------------------
\* Dexie tables
\* ------------------------------------------------------------------------

TableAdd_Put(t, obj) ==
  [ok |-> TRUE,
   table |-> [k \in (DOMAIN t) \cup {obj.id} |-> IF k = obj.id THEN obj ELSE t[k]]]

\* Table.add: rejects with ConstraintError when the key is already present
TableAdd(t, obj) ==
  IF obj.id \in DOMAIN t
    THEN [ok |-> FALSE, table |-> t]
    ELSE [ok |-> TRUE,
          table |-> [k \in (DOMAIN t) \cup {obj.id} |-> IF k = obj.id THEN obj ELSE t[k]]]

RECURSIVE TableBulkAdd(_, _)
\* Table.bulkAdd outside a transaction: every object whose key is free is
\* stored, and the promise rejects (BulkError) when at least one was not
TableBulkAdd(t, objs) ==
  IF objs = << >>
    THEN [ok |-> TRUE, table |-> t]
    ELSE LET first == TableAdd(t, Head(objs))
             rest  == TableBulkAdd(first.table, Tail(objs))
         IN  [ok |-> first.ok /\ rest.ok, table |-> rest.table]

\* Table.update: merges the changes into the object stored under key and
\* resolves (with 0) without storing anything when the key is absent
TableUpdate(t, key, changes) ==
  IF key \in DOMAIN t
    THEN [t EXCEPT ![key] = Merge(t[key], changes)]
    ELSE t

\* order of the primary keys of the expenses table
KeyOrder == <<"e1", "e2", "u1", "u2", "u3">>

KeyRank(k) == CHOOSE i \in 1..Len(KeyOrder) : KeyOrder[i] = k

TableDelete_Through(t, key) == [k \in {j \in DOMAIN t : KeyRank(j) > KeyRank(key)} |-> t[k]]

\* Table.delete: removes the object stored under key, if there is one
TableDelete(t, key) == [k \in (DOMAIN t) \ {key} |-> t[k]]

TableClear(t) == EmptyTable

RECURSIVE SortDesc(_, _)
SortDesc(t, keys) ==
  IF keys = {}
    THEN << >>
    ELSE LET top == CHOOSE k \in keys :
                      \A j \in keys :
                         \/ t[k].createdAt > t[j].createdAt
                         \/ /\ t[k].createdAt = t[j].createdAt
                            /\ KeyRank(k) >= KeyRank(j)
         IN  <<t[top]>> \o SortDesc(t, keys \ {top})

\* orderBy('createdAt').reverse().toArray(): an index lists only the objects
\* that have the indexed property
useExpenses == SortDesc(expenses, {k \in DOMAIN expenses : Has(expenses[k], "createdAt")})

\* ------------------------------------------------------------------------
\* Toasts (the outcome reported to the user)
\* ------------------------------------------------------------------------

NoToast == [title |-> "", description |-> ""]

Success(description) == [title |-> "Success", description |-> description]

Error(description) == [title |-> "Error", description |-> description]

\* ------------------------------------------------------------------------
\* Expense schema and the expense form
\* ------------------------------------------------------------------------

PaymentMethods == {"UPI", "Cash", "Card", "Other"}

Accounts == {"ICICI", "HDFC", "SBI", "Other"}

FormKeys == {"id", "amount", "date", "time", "category", "items", "where", "note",
             "paymentMethod", "account", "isRecurring", "isTemplate", "attachments"}

RequiredKeys == {"amount", "date", "time", "category", "paymentMethod", "account"}

\* expenseFormSchema.safeParse(v).success
expenseFormSchema(v) ==
  /\ RequiredKeys \subseteq DOMAIN v
  /\ v.amount > 0
  /\ v.date # ""
  /\ v.time # ""
  /\ v.category # ""
  /\ v.paymentMethod \in PaymentMethods
  /\ v.account \in Accounts

\* the parsed output: unknown keys stripped, defaults filled in
ZodOutput(v) ==
  Merge([isRecurring |-> FALSE, isTemplate |-> FALSE], Restrict(v, FormKeys))

\* values the user can leave in the add form (the last one is rejected by
\* the resolver)
AddFormValues ==
  { [id |-> "", amount |-> 1, date |-> "2024-01-01", time |-> "09:00", category |-> "food",
     items |-> "", where |-> "", note |-> "", paymentMethod |-> "UPI", account |-> "ICICI",
     isRecurring |-> FALSE, isTemplate |-> FALSE, attachments |-> << >>],
    [id |-> "", amount |-> 2, date |-> "2024-01-02", time |-> "18:30", category |-> "gone",
     items |-> "tea", where |-> "", note |-> "n", paymentMethod |-> "Cash", account |-> "Other",
     isRecurring |-> FALSE, isTemplate |-> FALSE, attachments |-> <<"img">>],
    [id |-> "", amount |-> 0, date |-> "2024-01-01", time |-> "09:00", category |-> "food",
     items |-> "", where |-> "", note |-> "", paymentMethod |-> "UPI", account |-> "ICICI",
     isRecurring |-> FALSE, isTemplate |-> FALSE, attachments |-> << >>] }

\* fields the user changes in the edit form, and the updates a caller of the
\* update hook supplies
FieldChanges ==
  { [amount |-> 2],
    [category |-> "other", note |-> "m"],
    [amount |-> 0] }

\* those of them a validated caller supplies
ValidChanges == {c \in FieldChanges : Has(c, "amount") => c.amount > 0}

\* ------------------------------------------------------------------------
\* Initial state: the database after its first 'ready' event
\* ------------------------------------------------------------------------

DEFAULT_CATEGORIES ==
  << [id |-> "food", name |-> "Food", icon |-> "utensils", color |-> "orange", isDefault |-> TRUE],
     [id |-> "other", name |-> "Other", icon |-> "file-text", color |-> "gray", isDefault |-> TRUE] >>

\* the currency '\u20B9' of db.ts is written "U+20B9"
DefaultSettings ==
  [id |-> "default", currency |-> "U+20B9", theme |-> "light", language |-> "en",
   notifications |-> TRUE, budgetAlerts |-> TRUE]

NoFile == [kind |-> "none"]

Init ==
  /\ expenses = EmptyTable
  /\ budgets = EmptyTable
  /\ categories = TableBulkAdd(EmptyTable, DEFAULT_CATEGORIES).table
  /\ settings = TableAdd(EmptyTable, DefaultSettings).table
  /\ clock = 0
  /\ file = NoFile
  /\ toast = NoToast
  /\ last = [op |-> "ready"]
  /\ snap = << >>
  /\ phase = "none"
  /\ inflight = << >>
  /\ issued = [base |-> << >>, ops |-> << >>, seen |-> {}]

\* milliseconds of a day
DayMs == 86400000

\* the wall clock advances by a millisecond
Tick ==
  /\ clock % DayMs < MaxClock
  /\ clock' = clock + 1
  /\ toast' = NoToast
  /\ last' = [op |-> "tick"]
  /\ UNCHANGED <<expenses, budgets, categories, settings, file, snap, phase>>

\* ------------------------------------------------------------------------
\* Expense hooks (hooks/use-expenses.ts) and the form's onSubmit
\* ------------------------------------------------------------------------

\* mutationFn of useAddExpense
useAddExpense(expense, uuid, now) ==
  TableAdd(expenses, Merge(expense, [id |-> uuid, createdAt |-> now, updatedAt |-> now]))

\* onSubmit of the expense form without editingExpense
onSubmitAdd(values, uuid) ==
  /\ expenseFormSchema(values)
  /\ LET payload == Merge(ZodOutput(values), [attachments |-> values.attachments])
         r == useAddExpense(payload, uuid, clock)
     IN  /\ expenses' = r.table
         /\ toast' = IF r.ok THEN Success("Expense added successfully!")
                             ELSE Error("Failed to add expense. Please try again.")
         /\ last' = [op |-> "addExpense", ok |-> r.ok, input |-> payload]
  /\ phase' = "none"
  /\ UNCHANGED <<budgets, categories, settings, clock, file, snap>>

\* expenses a caller hands to the add hook's mutateAsync without going through
\* the form: the first satisfies the schema, each other one breaks one of its
\* constraints
HookExpense ==
  [amount |-> 5, date |-> "2024-01-02", time |-> "09:00", category |-> "food",
   items |-> "", where |-> "", note |-> "", paymentMethod |-> "UPI", account |-> "ICICI",
   isRecurring |-> FALSE, isTemplate |-> FALSE, attachments |-> << >>]

HookExpenses ==
  { HookExpense,
    [HookExpense EXCEPT !.amount = 0],
    [HookExpense EXCEPT !.amount = -5],
    [HookExpense EXCEPT !.paymentMethod = "Cheque"],
    [HookExpense EXCEPT !.account = "Axis"],
    [HookExpense EXCEPT !.date = ""],
    [HookExpense EXCEPT !.time = ""] }

\* useAddExpense().mutateAsync(expense): mutationFn, then onSuccess or onError
AddExpense(expense, uuid) ==
  /\ LET r == useAddExpense(expense, uuid, clock)
     IN  /\ expenses' = r.table
         /\ toast' = IF r.ok THEN Success("Expense added successfully!")
                             ELSE Error("Failed to add expense. Please try again.")
         /\ last' = [op |-> "addExpenseHook", ok |-> r.ok, input |-> expense]
  /\ phase' = "none"
  /\ UNCHANGED <<budgets, categories, settings, clock, file, snap>>

\* mutationFn of useUpdateExpense in hooks/use-expenses.ts: its argument is
\* destructured into id and updates
useUpdateExpense(arg, now) ==
  LET id == IF Has(arg, "id") THEN arg.id ELSE ""
      updates == IF Has(arg, "updates") THEN arg.updates ELSE << >>
  IN  TableUpdate(expenses, id, Merge(updates, [updatedAt |-> now]))

\* a caller of the update hook passing {id, updates}
UpdateExpense(id, updates) ==
  /\ expenses' = useUpdateExpense([id |-> id, updates |-> updates], clock)
  /\ toast' = Success("Expense updated successfully!")
  /\ last' = [op |-> "updateExpense", id |-> id, updates |-> updates]
  /\ phase' = "none"
  /\ UNCHANGED <<budgets, categories, settings, clock, file, snap>>

\* mutationFn of useUpdateExpense as in App.tsx: its argument is the expense
useUpdateExpenseWhole(expense, now) ==
  TableUpdate(expenses, expense.id, Merge(expense, [updatedAt |-> now]))

\* a caller of that hook passing an expense it read from the list, edited
UpdateExpenseWhole(id, changes) ==
  /\ id \in DOMAIN expenses
  /\ expenses' = useUpdateExpenseWhole(Merge(Restrict(expenses[id], FormKeys), changes), clock)
  /\ toast' = Success("Expense updated successfully!")
  /\ last' = [op |-> "updateExpenseWhole", id |-> id, updates |-> changes]
  /\ phase' = "none"
  /\ UNCHANGED <<budgets, categories, settings, clock, file, snap>>

\* onSubmit of the expense form with editingExpense: the form was reset to
\* the expense, the user changed some fields, the resolver accepted them
onSubmitEdit(id, changes) ==
  /\ id \in DOMAIN expenses
  /\ LET editingExpense == expenses[id]
         values == Merge(editingExpense, changes)
         attachments == IF Has(editingExpense, "attachments")
                          THEN editingExpense.attachments ELSE << >>
     IN  /\ expenseFormSchema(values)
         /\ LET payload == Merge(ZodOutput(values), [attachments |-> attachments])
            IN  expenses' = useUpdateExpense(Merge(payload, [id |-> editingExpense.id]), clock)
  /\ toast' = Success("Expense updated successfully!")
  /\ last' = [op |-> "editExpense", id |-> id, updates |-> changes]
  /\ phase' = "none"
  /\ UNCHANGED <<budgets, categories, settings, clock, file, snap>>

\* handleDeleteExpense of the expenses page
handleDeleteExpense(id, confirmed) ==
  /\ expenses' = IF confirmed THEN TableDelete(expenses, id) ELSE expenses
  /\ toast' = IF confirmed THEN Success("Expense deleted successfully!") ELSE NoToast
  /\ last' = [op |-> "deleteExpense", id |-> id, confirmed |-> confirmed,
              existed |-> id \in DOMAIN expenses]
  /\ phase' = "none"
  /\ UNCHANGED <<budgets, categories, settings, clock, file, snap>>

\* ------------------------------------------------------------------------
\* Settings hook (hooks/use-settings.ts)
\* ------------------------------------------------------------------------

\* useSettings(): the singleton record, absent while there is none
useSettings == IF "default" \in DOMAIN settings THEN <<settings["default"]>> ELSE << >>

useUpdateSettings_Rekey(t, changes) ==
  TableAdd(TableClear(t), Merge(changes, [id |-> "settings"])).table

\* mutationFn of useUpdateSettings: updates the singleton in place
useUpdateSettings(t, changes) == TableUpdate(t, "default", changes)

\* handleSettingChange(key, value) of the settings page
handleSettingChange(changes) ==
  /\ settings' = useUpdateSettings(settings, changes)
  /\ toast' = NoToast
  /\ last' = [op |-> "settingChange"]
  /\ phase' = "none"
  /\ UNCHANGED <<expenses, budgets, categories, clock, file, snap>>

SettingChanges == { [currency |-> "$"] }

\* ------------------------------------------------------------------------
\* JSON bundle: export
\* ------------------------------------------------------------------------

RECURSIVE toArray(_)
\* Table.toArray(): the stored objects, one per key
toArray(t) ==
  IF DOMAIN t = {}
    THEN << >>
    ELSE LET k == CHOOSE k \in DOMAIN t : TRUE
         IN  <<t[k]>> \o toArray(TableDelete(t, k))

\* properties of the exported object that can hold undefined; the model
\* writes such a value as << >> and a defined one as <<v>>
Optional == {"settings"}

Dropped(data) == {k \in (DOMAIN data) \cap Optional : data[k] = << >>}

\* JSON.stringify(data): a property whose value is undefined is left out
JSONstringify(data) ==
  [wellFormed |-> TRUE, isNull |-> FALSE,
   value |-> [k \in (DOMAIN data) \ Dropped(data) |->
                IF k \in Optional THEN data[k][1] ELSE data[k]]]

\* exportData of the settings page
exportData ==
  /\ LET data == [expenses |-> toArray(expenses),
                  budgets |-> toArray(budgets),
                  categories |-> toArray(categories),
                  settings |-> useSettings,
                  exportDate |-> clock]
     IN  file' = JSONstringify(data)
  /\ toast' = Success("Data exported successfully!")
  /\ last' = [op |-> "exportData"]
  /\ snap' = store
  /\ phase' = "exported"
  /\ UNCHANGED <<expenses, budgets, categories, settings, clock>>

\* ------------------------------------------------------------------------
\* Storage failures: the awaited store call number failAt rejects
\* (failAt = 0: none does)
\* ------------------------------------------------------------------------

\* the state an asynchronous handler threads through its awaited calls
Begin == [e |-> expenses, b |-> budgets, c |-> categories, s |-> settings,
          n |-> 0, failed |-> FALSE, cleared |-> FALSE, added |-> FALSE]

\* one awaited call: skipped once the handler has thrown, rejected when it is
\* the failing call, applied otherwise
Await(st, failAt, applied) ==
  IF st.failed THEN st
  ELSE IF st.n + 1 = failAt THEN [st EXCEPT !.n = st.n + 1, !.failed = TRUE]
  ELSE [applied EXCEPT !.n = st.n + 1]

\* await db.expenses.clear(); await db.budgets.clear(); await db.categories.clear()
ClearThree(st, failAt) ==
  LET s1 == Await(st, failAt, [st EXCEPT !.e = TableClear(st.e)])
      s2 == Await(s1, failAt, [s1 EXCEPT !.b = TableClear(s1.b)])
      s3 == Await(s2, failAt, [s2 EXCEPT !.c = TableClear(s2.c), !.cleared = TRUE])
  IN  s3

\* await table.bulkAdd(objs): what could be added stays added when it rejects
AwaitBulkAdd(st, failAt, field, objs) ==
  LET r == TableBulkAdd(st[field], objs)
      s1 == Await(st, failAt, [st EXCEPT ![field] = r.table])
  IN  IF s1.failed \/ r.ok THEN s1 ELSE [s1 EXCEPT !.failed = TRUE]

\* the bulk inserts are through, unless the handler has thrown
Added(st) == IF st.failed THEN st ELSE [st EXCEPT !.added = TRUE]

\* how a confirmed import ended
Outcome(r) ==
  IF ~r.failed THEN "imported"
  ELSE IF ~r.cleared THEN "failedBeforeClear"
  ELSE IF ~r.added THEN "failedAfterClear"
  ELSE "failedAfterAdd"

\* ------------------------------------------------------------------------
\* JSON bundle: import
\* ------------------------------------------------------------------------

\* a timestamp later than any the model's clock reaches
LaterStamp == MaxClock + 1

BundleExpense ==
  [id |-> "e1", amount |-> 3, date |-> "2023-12-31", time |-> "10:00", category |-> "c1",
   items |-> "book", paymentMethod |-> "Card", account |-> "SBI", isRecurring |-> FALSE,
   isTemplate |-> FALSE, attachments |-> << >>, createdAt |-> 0, updatedAt |-> LaterStamp]

BundleBudget ==
  [id |-> "b1", name |-> "Books", amount |-> 10, category |-> "c1", period |-> "monthly",
   startDate |-> "2023-12-01", isActive |-> TRUE, createdAt |-> 0, updatedAt |-> 0]

BundleCategory ==
  [id |-> "c1", name |-> "Books", icon |-> "book", color |-> "blue", isDefault |-> FALSE]

BundleSettings ==
  [id |-> "default", currency |-> "$", theme |-> "dark", language |-> "en",
   notifications |-> FALSE, budgetAlerts |-> FALSE]

Doc(value) == [wellFormed |-> TRUE, isNull |-> FALSE, value |-> value]

MalformedDoc == [wellFormed |-> FALSE, isNull |-> FALSE, value |-> << >>]

NullDoc == [wellFormed |-> TRUE, isNull |-> TRUE, value |-> << >>]

FullDoc ==
  Doc([expenses |-> <<BundleExpense>>, budgets |-> <<BundleBudget>>,
       categories |-> <<BundleCategory>>, settings |-> BundleSettings, exportDate |-> 0])

\* documents the user can pick besides the last exported file
Documents ==
  { MalformedDoc,
    NullDoc,
    FullDoc,
    Doc([expenses |-> <<BundleExpense>>, budgets |-> << >>, categories |-> << >>]),
    Doc([expenses |-> <<BundleExpense>>, budgets |-> <<BundleBudget, BundleBudget>>,
         categories |-> <<BundleCategory>>, settings |-> BundleSettings]) }

importBody_NoExpenses(doc, failAt) ==
  LET data == doc.value
      s0 == ClearThree(Begin, failAt)
      sn == IF doc.isNull /\ ~s0.failed THEN [s0 EXCEPT !.failed = TRUE] ELSE s0
      s1 == IF Has(data, "expenses") THEN Await(sn, failAt, sn) ELSE sn
      s2 == IF Has(data, "budgets") THEN AwaitBulkAdd(s1, failAt, "b", data.budgets) ELSE s1
      s3 == IF Has(data, "categories") THEN AwaitBulkAdd(s2, failAt, "c", data.categories) ELSE s2
      sa == Added(s3)
      s4 == IF Has(data, "settings")
              THEN Await(sa, failAt, [sa EXCEPT !.s = useUpdateSettings(sa.s, data.settings)])
              ELSE sa
  IN  s4

\* the confirmed branch of importData (doc is the parsed document)
importBody(doc, failAt) ==
  LET data == doc.value
      s0 == ClearThree(Begin, failAt)
      \* reading a property of null throws
      sn == IF doc.isNull /\ ~s0.failed THEN [s0 EXCEPT !.failed = TRUE] ELSE s0
      s1 == IF Has(data, "expenses") THEN AwaitBulkAdd(sn, failAt, "e", data.expenses) ELSE sn
      s2 == IF Has(data, "budgets") THEN AwaitBulkAdd(s1, failAt, "b", data.budgets) ELSE s1
      s3 == IF Has(data, "categories") THEN AwaitBulkAdd(s2, failAt, "c", data.categories) ELSE s2
      sa == Added(s3)
      s4 == IF Has(data, "settings")
              THEN Await(sa, failAt, [sa EXCEPT !.s = useUpdateSettings(sa.s, data.settings)])
              ELSE sa
  IN  s4

ImportFailed == Error("Failed to import data. Please check the file format.")

importData_ClearFirst(doc, confirmed, failAt) ==
  /\ (~doc.wellFormed \/ ~confirmed) => failAt = 0
  /\ IF ~doc.wellFormed
         THEN /\ expenses' = TableClear(expenses)
              /\ budgets' = TableClear(budgets)
              /\ categories' = TableClear(categories)
              /\ toast' = ImportFailed
              /\ last' = [op |-> "importData", outcome |-> "parseError", confirmed |-> confirmed,
                          doc |-> doc]
              /\ phase' = "none"
              /\ UNCHANGED <<settings, clock, file, snap>>
         ELSE IF ~confirmed
         THEN /\ last' = [op |-> "importData", outcome |-> "declined", confirmed |-> confirmed,
                          doc |-> doc]
              /\ toast' = NoToast
              /\ phase' = "none"
              /\ UNCHANGED <<expenses, budgets, categories, settings, clock, file, snap>>
         ELSE LET r == importBody(doc, failAt)
              IN  /\ expenses' = r.e
                  /\ budgets' = r.b
                  /\ categories' = r.c
                  /\ settings' = r.s
                  /\ toast' = IF r.failed THEN ImportFailed
                                          ELSE Success("Data imported successfully!")
                  /\ last' = [op |-> "importData",
                              outcome |-> Outcome(r),
                              confirmed |-> confirmed, doc |-> doc]
                  /\ phase' = IF phase = "cleared" /\ doc = file /\ ~r.failed
                                THEN "imported" ELSE "none"
                  /\ UNCHANGED <<clock, file, snap>>

\* reader.onload of importData
importData(doc, confirmed, failAt) ==
  /\ (~doc.wellFormed \/ ~confirmed) => failAt = 0
  /\ IF ~doc.wellFormed
         THEN \* JSON.parse throws
              /\ toast' = ImportFailed
              /\ last' = [op |-> "importData", outcome |-> "parseError", confirmed |-> confirmed,
                          doc |-> doc]
              /\ phase' = "none"
              /\ UNCHANGED <<expenses, budgets, categories, settings, clock, file, snap>>
         ELSE IF ~confirmed
         THEN /\ last' = [op |-> "importData", outcome |-> "declined", confirmed |-> confirmed,
                          doc |-> doc]
              /\ toast' = NoToast
              /\ phase' = "none"
              /\ UNCHANGED <<expenses, budgets, categories, settings, clock, file, snap>>
         ELSE LET r == importBody(doc, failAt)
              IN  /\ expenses' = r.e
                  /\ budgets' = r.b
                  /\ categories' = r.c
                  /\ settings' = r.s
                  /\ toast' = IF r.failed THEN ImportFailed
                                          ELSE Success("Data imported successfully!")
                  /\ last' = [op |-> "importData",
                              outcome |-> Outcome(r),
                              confirmed |-> confirmed, doc |-> doc]
                  /\ phase' = IF phase = "cleared" /\ doc = file /\ ~r.failed
                                THEN "imported" ELSE "none"
                  /\ UNCHANGED <<clock, file, snap>>

\* ------------------------------------------------------------------------
\* Clear all data
\* ------------------------------------------------------------------------

\* the currency literal of settings.tsx is the mis-decoded form of the rupee sign
ClearedSettings ==
  [currency |-> "U+00E2 U+201A U+00B9", theme |-> "light", language |-> "en",
   notifications |-> TRUE, budgetAlerts |-> TRUE]

clearBody(failAt) ==
  LET s0 == ClearThree(Begin, failAt)
  IN  Await(s0, failAt, [s0 EXCEPT !.s = useUpdateSettings(s0.s, ClearedSettings)])

clearAllData_NoConfirm(confirmed, failAt) ==
  /\ ~confirmed => failAt = 0
  /\ LET r == clearBody(failAt)
     IN  /\ expenses' = r.e
         /\ budgets' = r.b
         /\ categories' = r.c
         /\ settings' = r.s
         /\ toast' = IF r.failed THEN Error("Failed to clear data.")
                                 ELSE Success("All data cleared successfully!")
         /\ last' = [op |-> "clearAllData",
                     outcome |-> IF r.failed THEN "failed" ELSE "cleared",
                     confirmed |-> confirmed]
         /\ phase' = IF phase = "exported" /\ ~r.failed THEN "cleared" ELSE "none"
         /\ UNCHANGED <<clock, file, snap>>

\* clearAllData of the settings page
clearAllData(confirmed, failAt) ==
  /\ ~confirmed => failAt = 0
  /\ IF ~confirmed
         THEN /\ last' = [op |-> "clearAllData", outcome |-> "declined", confirmed |-> confirmed]
              /\ toast' = NoToast
              /\ phase' = "none"
              /\ UNCHANGED <<expenses, budgets, categories, settings, clock, file, snap>>
         ELSE LET r == clearBody(failAt)
              IN  /\ expenses' = r.e
                  /\ budgets' = r.b
                  /\ categories' = r.c
                  /\ settings' = r.s
                  /\ toast' = IF r.failed THEN Error("Failed to clear data.")
                                          ELSE Success("All data cleared successfully!")
                  /\ last' = [op |-> "clearAllData",
                              outcome |-> IF r.failed THEN "failed" ELSE "cleared",
                              confirmed |-> confirmed]
                  /\ phase' = IF phase = "exported" /\ ~r.failed THEN "cleared" ELSE "none"
                  /\ UNCHANGED <<clock, file, snap>>

\* ------------------------------------------------------------------------
\* Dates (JavaScript Date and date-fns, in a zone whose offset from UTC is 0)
\* ------------------------------------------------------------------------

\* A Date is <<day, ms>>: day counts calendar days from Sunday 2023-12-31
\* (day 0) and ms is the millisecond of that day; an Invalid Date is << >>.
InvalidDate == << >>

\* the calendar day of each 'yyyy-MM-dd' string of the model
DayOfDate ==
  ("2023-12-01" :> -30) @@ ("2023-12-30" :> -1) @@ ("2023-12-31" :> 0) @@
  ("2024-01-01" :> 1) @@ ("2024-01-02" :> 2) @@ ("2024-01-03" :> 3) @@
  ("2024-01-06" :> 6) @@
  ("2024-01-07" :> 7) @@ ("2024-02-01" :> 32)

\* parseISO(s) and new Date(s) of a date-only string: midnight of that day
parseISO(s) == IF s \in DOMAIN DayOfDate THEN <<DayOfDate[s], 0>> ELSE InvalidDate

\* date.toISOString().split('T')[0]
toISODate(date) == CHOOSE s \in DOMAIN DayOfDate : DayOfDate[s] = date[1]

\* a >= b and a <= b on Dates: false when either is an Invalid Date
DateLe(a, b) ==
  /\ a # InvalidDate
  /\ b # InvalidDate
  /\ \/ a[1] < b[1]
     \/ a[1] = b[1] /\ a[2] <= b[2]

\* a <= b on date strings: the order of the characters, in which the empty
\* string precedes every date
StringLe(a, b) ==
  \/ a = ""
  \/ b # "" /\ DayOfDate[a] <= DayOfDate[b]

\* new Date(stamp) of a stored timestamp, and new Date() when the clock
\* shows now: the clock counts the milliseconds from noon of 2024-01-02
NewDate(now) ==
  LET t == (DayMs \div 2) + now
  IN  <<DayOfDate["2024-01-02"] + (t \div DayMs), t % DayMs>>

\* new Date().toISOString().split('T')[0]
ISODate(now) == toISODate(NewDate(now))

\* new Date(0)
Epoch == <<-19722, 0>>

getDay(date) == date[1] % 7

FirstOfMonth(day) == IF day <= 0 THEN -30 ELSE IF day <= 31 THEN 1 ELSE 32

LastOfMonth(day) == IF day <= 0 THEN 0 ELSE IF day <= 31 THEN 31 ELSE 60

FirstOfYear(day) == IF day <= 0 THEN -364 ELSE 1

LastOfYear(day) == IF day <= 0 THEN 0 ELSE 366

startOfDay(date) == <<date[1], 0>>

endOfDay(date) == <<date[1], DayMs - 1>>

startOfWeek(date) == <<date[1] - getDay(date), 0>>

endOfWeek(date) == <<date[1] - getDay(date) + 6, DayMs - 1>>

startOfMonth(date) == <<FirstOfMonth(date[1]), 0>>

endOfMonth(date) == <<LastOfMonth(date[1]), DayMs - 1>>

startOfYear(date) == <<FirstOfYear(date[1]), 0>>

endOfYear(date) == <<LastOfYear(date[1]), DayMs - 1>>

\* a DateRange of react-day-picker: from and to are absent (<< >>) or hold the
\* midnight of the picked day
Picked(day) == <<(<<day, 0>>)>>

NoRange == [undefined |-> TRUE]

DateRanges ==
  { NoRange,
    [from |-> Picked(0), to |-> << >>],
    [from |-> << >>, to |-> Picked(2)],
    [from |-> Picked(0), to |-> Picked(2)] }

\* list.reduce((sum, expense) => sum + expense.amount, 0)
RECURSIVE SumAmount(_)
SumAmount(list) == IF list = << >> THEN 0 ELSE Head(list).amount + SumAmount(Tail(list))

Between(date, start, end) == DateLe(start, date) /\ DateLe(date, end)

\* ------------------------------------------------------------------------
\* Workbook import
\* ------------------------------------------------------------------------

\* row[col] || fallback, for a text cell
Cell(row, col, fallback) == IF Has(row, col) /\ row[col] # "" THEN row[col] ELSE fallback

\* row[col] || fallback, for a 'Created At' cell (a non-empty timestamp)
StampCell(row, col, fallback) == IF Has(row, col) THEN row[col] ELSE fallback

NaN == [nan |-> TRUE]

\* parseFloat of an Amount cell: a numeric cell [num |-> n] is its number, a
\* text cell [text |-> s] the number s starts with, an absent cell NaN
parseFloat(row, col) ==
  IF ~Has(row, col) THEN NaN
  ELSE IF Has(row[col], "num") THEN [nan |-> FALSE, num |-> row[col].num]
  ELSE IF row[col].text = "-4" THEN [nan |-> FALSE, num |-> 0 - 4]
  ELSE NaN

\* f || 0
OrZero(f) == IF f.nan THEN 0 ELSE f.num

ExpenseOfRow(row, uuid, now) ==
  [id |-> uuid,
   date |-> Cell(row, "Date", ISODate(now)),
   time |-> Cell(row, "Time", "00:00"),
   amount |-> OrZero(parseFloat(row, "Amount")),
   category |-> Cell(row, "Category", "other"),
   items |-> Cell(row, "Items", ""),
   where |-> Cell(row, "Location", ""),
   paymentMethod |-> Cell(row, "Payment Method", "UPI"),
   account |-> Cell(row, "Account", "Other"),
   note |-> Cell(row, "Notes", ""),
   isRecurring |-> FALSE,
   isTemplate |-> FALSE,
   attachments |-> << >>,
   createdAt |-> StampCell(row, "Created At", now),
   updatedAt |-> now]

BudgetOfRow_ActiveUnlessNo(row, uuid, now) ==
  [id |-> uuid,
   name |-> Cell(row, "Name", "Budget"),
   amount |-> OrZero(parseFloat(row, "Amount")),
   category |-> Cell(row, "Category", "other"),
   period |-> Cell(row, "Period", "monthly"),
   startDate |-> Cell(row, "Start Date", ISODate(now)),
   isActive |-> ~(Has(row, "Is Active") /\ row["Is Active"] = "No"),
   createdAt |-> StampCell(row, "Created At", now),
   updatedAt |-> now]

BudgetOfRow(row, uuid, now) ==
  [id |-> uuid,
   name |-> Cell(row, "Name", "Budget"),
   amount |-> OrZero(parseFloat(row, "Amount")),
   category |-> Cell(row, "Category", "other"),
   period |-> Cell(row, "Period", "monthly"),
   startDate |-> Cell(row, "Start Date", ISODate(now)),
   isActive |-> (Has(row, "Is Active") /\ row["Is Active"] = "Yes"),
   createdAt |-> StampCell(row, "Created At", now),
   updatedAt |-> now]

\* the fallback icon literal of settings.tsx is the mis-decoded form of the
\* memo emoji
CategoryOfRow(row, uuid) ==
  [id |-> uuid,
   name |-> Cell(row, "Name", "Category"),
   icon |-> Cell(row, "Icon", "U+00F0 U+0178 U+201C"),
   color |-> Cell(row, "Color", "gray"),
   isDefault |-> (Has(row, "Is Default") /\ row["Is Default"] = "Yes")]

\* workbooks the user can pick: wellFormed is whether XLSX.read accepts the
\* file, sheets maps each sheet name to its rows
Workbooks ==
  { [wellFormed |-> FALSE, sheets |-> << >>],
    [wellFormed |-> TRUE,
     sheets |-> [Expenses |-> << [Date |-> "2024-01-01", Time |-> "08:00", Amount |-> [num |-> 2],
                                  Category |-> "food", Items |-> "", Location |-> "",
                                  Account |-> "HDFC", Notes |-> ""]
                                   @@ ("Payment Method" :> "Card") @@ ("Created At" :> 0),
                                 [Amount |-> [text |-> "abc"]] >>,
                 Budgets |-> << [Name |-> "Rent", Amount |-> [num |-> 5], Category |-> "food",
                                 Period |-> "weekly"]
                                  @@ ("Start Date" :> "2024-01-01") @@ ("Is Active" :> "Yes")
                                  @@ ("Created At" :> 0) >>]],
    [wellFormed |-> TRUE,
     sheets |-> [Expenses |-> << [Date |-> "2024-01-01", Amount |-> [text |-> "-4"]] >>,
                 Categories |-> << [Name |-> "Food", Icon |-> "utensils", Color |-> "orange"]
                                     @@ ("Is Default" :> "Yes") >>]] }

\* the confirmed branch of importFromExcel; uuids are the identifiers
\* crypto.randomUUID() returns for the rows of each sheet
excelBody(workbook, uuids, failAt, now) ==
  LET sheets == workbook.sheets
      s0 == ClearThree(Begin, failAt)
      s1 == IF Has(sheets, "Expenses")
              THEN AwaitBulkAdd(s0, failAt, "e",
                                [i \in 1..Len(sheets.Expenses) |->
                                   ExpenseOfRow(sheets.Expenses[i], uuids.e[i], now)])
              ELSE s0
      s2 == IF Has(sheets, "Budgets")
              THEN AwaitBulkAdd(s1, failAt, "b",
                                [i \in 1..Len(sheets.Budgets) |->
                                   BudgetOfRow(sheets.Budgets[i], uuids.b[i], now)])
              ELSE s1
      s3 == IF Has(sheets, "Categories")
              THEN AwaitBulkAdd(s2, failAt, "c",
                                [i \in 1..Len(sheets.Categories) |->
                                   CategoryOfRow(sheets.Categories[i], uuids.c[i])])
              ELSE s2
  IN  Added(s3)

\* identifiers drawn for the rows of the three sheets: two different ones for
\* the two expense rows, or the same one twice
RowUuids == [e : {<<"u1", "u2">>, <<"u2", "u2">>}, b : [1..1 -> {"u1"}], c : [1..1 -> {"u1"}]]

\* the draw used where no identifier is drawn
FirstUuids == CHOOSE u \in RowUuids : TRUE

ExcelFailed == Error("Failed to import Excel file. Please check the file format.")

\* reader.onload of importFromExcel
importFromExcel(workbook, confirmed, uuids, failAt) ==
  /\ (~workbook.wellFormed \/ ~confirmed) => (failAt = 0 /\ uuids = FirstUuids)
  /\ IF ~workbook.wellFormed
         THEN \* XLSX.read throws
              /\ toast' = ExcelFailed
              /\ last' = [op |-> "importFromExcel", outcome |-> "parseError", confirmed |-> confirmed]
              /\ phase' = "none"
              /\ UNCHANGED <<expenses, budgets, categories, settings, clock, file, snap>>
         ELSE IF ~confirmed
         THEN /\ last' = [op |-> "importFromExcel", outcome |-> "declined", confirmed |-> confirmed]
              /\ toast' = NoToast
              /\ phase' = "none"
              /\ UNCHANGED <<expenses, budgets, categories, settings, clock, file, snap>>
         ELSE LET r == excelBody(workbook, uuids, failAt, clock)
              IN  /\ expenses' = r.e
                  /\ budgets' = r.b
                  /\ categories' = r.c
                  /\ settings' = r.s
                  /\ toast' = IF r.failed THEN ExcelFailed
                                          ELSE Success("Excel data imported successfully!")
                  /\ last' = [op |-> "importFromExcel",
                              outcome |-> Outcome(r),
                              confirmed |-> confirmed]
                  /\ phase' = IF phase = "exportedExcel" /\ workbook = file /\ ~r.failed
                                THEN "importedExcel" ELSE "none"
                  /\ UNCHANGED <<clock, file, snap>>

\* a row of the Expenses sheet with every column filled in
FullRow ==
  [Date |-> "2023-12-31", Time |-> "08:00", Amount |-> [num |-> 7], Category |-> "food",
   Items |-> "milk", Location |-> "shop", Account |-> "HDFC", Notes |-> "n"]
    @@ ("Payment Method" :> "Card") @@ ("Created At" :> 0)

\* a row of the Budgets sheet; active is << >> for a row without an
\* 'Is Active' cell and <<text>> for a row with one
BudgetRow(active) ==
  ([Name |-> "Rent", Amount |-> [num |-> 5], Category |-> "food", Period |-> "weekly"]
     @@ ("Start Date" :> "2024-01-01") @@ ("Created At" :> 0))
    @@ (IF active = << >> THEN << >> ELSE ("Is Active" :> active[1]))

\* the column left out of the expense row, with the 'Is Active' cell of the
\* budget row of the same workbook
SparseCases ==
  { <<"Date", <<"Yes">> >>, <<"Time", <<"No">> >>, <<"Amount", <<"yes">> >>,
    <<"Category", << >> >>, <<"Payment Method", <<"No">> >>, <<"Account", <<"Yes">> >> }

\* workbooks whose first expense row lacks one column; the last one has a row
\* stamped later than the clock reaches
SparseWorkbooks ==
  { [wellFormed |-> TRUE,
     sheets |-> [Expenses |-> << Restrict(FullRow, (DOMAIN FullRow) \ {c[1]}), FullRow >>,
                 Budgets |-> << BudgetRow(c[2]) >>]] : c \in SparseCases }
  \cup
  { [wellFormed |-> TRUE,
     sheets |-> [Expenses |-> << [Amount |-> [text |-> "abc"]],
                                 ("Created At" :> LaterStamp) @@ FullRow >>]] }

\* identifiers crypto.randomUUID() returns for the rows of each sheet when no
\* two of them coincide
ManyUuids == [e |-> <<"u3", "u2", "u1">>, b |-> <<"u1", "u2">>, c |-> <<"u1", "u2", "u3">>]

\* ------------------------------------------------------------------------
\* Workbook export
\* ------------------------------------------------------------------------

\* a cell json_to_sheet writes and sheet_to_json reads back: none for an
\* undefined value
CellOf(obj, field, col) == IF Has(obj, field) THEN (col :> obj[field]) ELSE << >>

\* value || ''
OrEmpty(obj, field) == IF Has(obj, field) THEN obj[field] ELSE ""

\* budget.isActive ? 'Yes' : 'No'
YesNo(obj, field) == IF Has(obj, field) /\ obj[field] = TRUE THEN "Yes" ELSE "No"

expensesData_NoTime(expense) ==
  CellOf(expense, "date", "Date")
    @@ (IF Has(expense, "amount") THEN [Amount |-> [num |-> expense.amount]] ELSE << >>)
    @@ CellOf(expense, "category", "Category")
    @@ [Items |-> OrEmpty(expense, "items"), Location |-> OrEmpty(expense, "where"),
        Notes |-> OrEmpty(expense, "note")]
    @@ CellOf(expense, "paymentMethod", "Payment Method")
    @@ CellOf(expense, "account", "Account")
    @@ CellOf(expense, "createdAt", "Created At")

\* a row of expensesData
expensesData(expense) ==
  CellOf(expense, "date", "Date")
    @@ CellOf(expense, "time", "Time")
    @@ (IF Has(expense, "amount") THEN [Amount |-> [num |-> expense.amount]] ELSE << >>)
    @@ CellOf(expense, "category", "Category")
    @@ [Items |-> OrEmpty(expense, "items"), Location |-> OrEmpty(expense, "where"),
        Notes |-> OrEmpty(expense, "note")]
    @@ CellOf(expense, "paymentMethod", "Payment Method")
    @@ CellOf(expense, "account", "Account")
    @@ CellOf(expense, "createdAt", "Created At")

\* a row of budgetsData
budgetsData(budget) ==
  CellOf(budget, "name", "Name")
    @@ (IF Has(budget, "amount") THEN [Amount |-> [num |-> budget.amount]] ELSE << >>)
    @@ CellOf(budget, "category", "Category")
    @@ CellOf(budget, "period", "Period")
    @@ CellOf(budget, "startDate", "Start Date")
    @@ ("Is Active" :> YesNo(budget, "isActive"))
    @@ CellOf(budget, "createdAt", "Created At")

\* a row of categoriesData: the sheet has no column for the id
categoriesData(category) ==
  CellOf(category, "name", "Name")
    @@ CellOf(category, "icon", "Icon")
    @@ CellOf(category, "color", "Color")
    @@ ("Is Default" :> YesNo(category, "isDefault"))

\* exportToExcel of the settings page
exportToExcel ==
  /\ LET e == toArray(expenses)
         b == toArray(budgets)
         c == toArray(categories)
     IN  file' = [wellFormed |-> TRUE,
                  sheets |-> [Expenses |-> [i \in 1..Len(e) |-> expensesData(e[i])],
                              Budgets |-> [i \in 1..Len(b) |-> budgetsData(b[i])],
                              Categories |-> [i \in 1..Len(c) |-> categoriesData(c[i])]]]
  /\ toast' = Success("Excel file exported successfully!")
  /\ last' = [op |-> "exportToExcel"]
  /\ snap' = store
  /\ phase' = "exportedExcel"
  /\ UNCHANGED <<expenses, budgets, categories, settings, clock>>

\* ------------------------------------------------------------------------
\* Restart: the 'ready' handler of db.ts
\* ------------------------------------------------------------------------

ready ==
  /\ categories' = IF DOMAIN categories = {}
                     THEN TableBulkAdd(categories, DEFAULT_CATEGORIES).table
                     ELSE categories
  /\ settings' = IF DOMAIN settings = {}
                   THEN TableAdd(settings, DefaultSettings).table
                   ELSE settings
  /\ toast' = NoToast
  /\ last' = [op |-> "ready"]
  /\ phase' = "none"
  /\ UNCHANGED <<expenses, budgets, clock, file, snap>>

\* ------------------------------------------------------------------------
\* Totals, date filters and the charts
\* ------------------------------------------------------------------------

\* useExpenseTotals(dateRange) of App.tsx, which stats-overview.tsx displays
useExpenseTotals(dateRange, now) ==
  LET today == NewDate(now)
      Total(start, end) ==
        SumAmount(SelectSeq(useExpenses, LAMBDA e : Between(parseISO(e.date), start, end)))
  IN  [todayTotal |-> Total(startOfDay(today), endOfDay(today)),
       weekTotal |-> Total(startOfWeek(today), endOfWeek(today)),
       monthTotal |-> Total(startOfMonth(today), endOfMonth(today)),
       rangeTotal |->
         IF dateRange # NoRange /\ dateRange.from # << >>
           THEN Total(startOfDay(dateRange.from[1]),
                      IF dateRange.to # << >> THEN endOfDay(dateRange.to[1])
                                              ELSE endOfDay(dateRange.from[1]))
           ELSE 0]

\* useExpenseStats() of hooks/use-expenses.ts: setDate keeps the time of day
useExpenseStats(now) ==
  LET today == ISODate(now)
      date == NewDate(now)
      weekStart == toISODate(<<date[1] - getDay(date), date[2]>>)
      monthStart == toISODate(<<FirstOfMonth(date[1]), date[2]>>)
  IN  [todayTotal |-> SumAmount(SelectSeq(useExpenses, LAMBDA e : e.date = today)),
       weekTotal |-> SumAmount(SelectSeq(useExpenses, LAMBDA e : StringLe(weekStart, e.date))),
       monthTotal |-> SumAmount(SelectSeq(useExpenses, LAMBDA e : StringLe(monthStart, e.date)))]

\* the totals of the StatsOverview component in pages/home.tsx, which
\* compares createdAt
StatsOverview(dateRange, now) ==
  LET today == NewDate(now)
      getTotal(filterFn(_)) == SumAmount(SelectSeq(useExpenses, filterFn))
      weekStart == <<today[1] - getDay(today), today[2]>>
      weekEnd == <<weekStart[1] + 6, weekStart[2]>>
      monthStart == <<FirstOfMonth(today[1]), 0>>
      monthEnd == <<LastOfMonth(today[1]), 0>>
      inToday(e) == NewDate(e.createdAt)[1] = today[1]
      inWeek(e) == Between(NewDate(e.createdAt), weekStart, weekEnd)
      inMonth(e) == Between(NewDate(e.createdAt), monthStart, monthEnd)
      inRange(e) ==
        LET createdAt == NewDate(e.createdAt)
        IN  IF dateRange.from # << >> /\ dateRange.to # << >>
              THEN Between(createdAt, dateRange.from[1], dateRange.to[1])
              ELSE IF dateRange.from # << >>
                     THEN DateLe(dateRange.from[1], createdAt)
                     ELSE TRUE
  IN  [todayTotal |-> getTotal(inToday),
       weekTotal |-> getTotal(inWeek),
       monthTotal |-> getTotal(inMonth),
       rangeTotal |-> IF dateRange # NoRange THEN getTotal(inRange) ELSE 0]

\* the 'date' index: the objects that have a date, by date and then by key
RECURSIVE SortByDate(_, _)
SortByDate(t, keys) ==
  IF keys = {}
    THEN << >>
    ELSE LET first == CHOOSE k \in keys :
                        \A j \in keys :
                           \/ ~StringLe(t[j].date, t[k].date)
                           \/ /\ t[k].date = t[j].date
                              /\ KeyRank(k) <= KeyRank(j)
         IN  <<t[first]>> \o SortByDate(t, keys \ {first})

\* useExpensesByDateRange(startDate, endDate):
\* where('date').between(startDate, endDate, true, true).toArray()
useExpensesByDateRange(startDate, endDate) ==
  SortByDate(expenses, {k \in DOMAIN expenses :
                           /\ Has(expenses[k], "date")
                           /\ StringLe(startDate, expenses[k].date)
                           /\ StringLe(expenses[k].date, endDate)})

\* filteredExpenses of the expenses page, its search box empty and its
\* category, payment and account filters on 'all'
filteredExpenses(dateRange, now) ==
  LET matchesDate(e) ==
        \/ dateRange = NoRange
        \/ /\ DateLe(IF dateRange.from # << >> THEN dateRange.from[1] ELSE Epoch,
                     parseISO(e.date))
           /\ DateLe(parseISO(e.date),
                     IF dateRange.to # << >> THEN dateRange.to[1] ELSE NewDate(now))
  IN  SelectSeq(useExpenses, matchesDate)

Aggregations == {"today", "week", "month", "year", "custom"}

FilterTypes == {"category", "account", "paymentMethod"}

\* interval of the charts
interval(aggregation, dateRange, now) ==
  LET date == NewDate(now)
      from == IF dateRange # NoRange THEN dateRange.from ELSE << >>
      to == IF dateRange # NoRange THEN dateRange.to ELSE << >>
  IN  CASE aggregation = "today" -> [start |-> startOfDay(date), end |-> endOfDay(date)]
        [] aggregation = "week" -> [start |-> startOfWeek(date), end |-> endOfWeek(date)]
        [] aggregation = "month" -> [start |-> startOfMonth(date), end |-> endOfMonth(date)]
        [] aggregation = "year" -> [start |-> startOfYear(date), end |-> endOfYear(date)]
        [] aggregation = "custom" ->
             [start |-> IF from # << >> THEN startOfDay(from[1]) ELSE startOfDay(date),
              end |-> IF to # << >> THEN endOfDay(to[1])
                      ELSE IF from # << >> THEN endOfDay(from[1]) ELSE endOfDay(date)]

chartExpenses_KnownOnly(aggregation, dateRange, now) ==
  LET i == interval(aggregation, dateRange, now)
  IN  SelectSeq(useExpenses, LAMBDA e : /\ Between(parseISO(e.date), i.start, i.end)
                                        /\ e.category \in DOMAIN categories)

\* filteredExpenses of the charts
chartExpenses(aggregation, dateRange, now) ==
  LET i == interval(aggregation, dateRange, now)
  IN  SelectSeq(useExpenses, LAMBDA e : Between(parseISO(e.date), i.start, i.end))

\* chartData: one {name, value} per key, in the order the keys first occur
RECURSIVE chartData(_, _, _)
chartData(list, filterType, acc) ==
  IF list = << >>
    THEN acc
    ELSE LET expense == Head(list)
             key == expense[filterType]
             at == {i \in 1..Len(acc) : acc[i].name = key}
             acc1 == IF at = {} THEN Append(acc, [name |-> key, value |-> 0]) ELSE acc
             i == CHOOSE j \in 1..Len(acc1) : acc1[j].name = key
         IN  chartData(Tail(list), filterType,
                       [acc1 EXCEPT ![i].value = @ + expense.amount])

\* pieData: the category id replaced by the category's name, or by 'Other'
pieData(data, filterType) ==
  [i \in 1..Len(data) |->
     IF filterType = "category"
       THEN [data[i] EXCEPT !.name = IF data[i].name \in DOMAIN categories
                                       THEN categories[data[i].name].name
                                       ELSE "Other"]
       ELSE data[i]]

\* what the stats cards show (stats-overview.tsx)
ShowTotals(dateRange) ==
  /\ last' = [op |-> "useExpenseTotals", dateRange |-> dateRange,
              totals |-> useExpenseTotals(dateRange, clock)]
  /\ toast' = NoToast
  /\ UNCHANGED <<expenses, budgets, categories, settings, clock, file, snap, phase>>

\* what the stats cards of pages/home.tsx show
ShowHomeTotals(dateRange) ==
  /\ last' = [op |-> "StatsOverview", dateRange |-> dateRange,
              totals |-> StatsOverview(dateRange, clock)]
  /\ toast' = NoToast
  /\ UNCHANGED <<expenses, budgets, categories, settings, clock, file, snap, phase>>

\* what a caller of useExpenseStats shows
ShowStats ==
  /\ last' = [op |-> "useExpenseStats", totals |-> useExpenseStats(clock)]
  /\ toast' = NoToast
  /\ UNCHANGED <<expenses, budgets, categories, settings, clock, file, snap, phase>>

\* what a caller of useExpensesByDateRange shows
ShowDateRange(startDate, endDate) ==
  /\ last' = [op |-> "useExpensesByDateRange", startDate |-> startDate, endDate |-> endDate,
              result |-> useExpensesByDateRange(startDate, endDate)]
  /\ toast' = NoToast
  /\ UNCHANGED <<expenses, budgets, categories, settings, clock, file, snap, phase>>

\* what the expenses page lists, and its total
ShowExpenses(dateRange) ==
  /\ LET list == filteredExpenses(dateRange, clock)
     IN  last' = [op |-> "filteredExpenses", dateRange |-> dateRange,
                  result |-> list, totalAmount |-> SumAmount(list)]
  /\ toast' = NoToast
  /\ UNCHANGED <<expenses, budgets, categories, settings, clock, file, snap, phase>>

\* what the charts show
ShowCharts(aggregation, filterType, dateRange) ==
  /\ LET list == chartExpenses(aggregation, dateRange, clock)
         data == chartData(list, filterType, << >>)
     IN  last' = [op |-> "ExpenseCharts", aggregation |-> aggregation,
                  filterType |-> filterType, dateRange |-> dateRange,
                  result |-> list, chartData |-> data,
                  pieData |-> pieData(data, filterType)]
  /\ toast' = NoToast
  /\ UNCHANGED <<expenses, budgets, categories, settings, clock, file, snap, phase>>

\* ------------------------------------------------------------------------
\* Budget evaluator (pages/budget, components/budget-overview)
\* ------------------------------------------------------------------------

budgetWindow_Rolling(budget, now) ==
  LET today == NewDate(now)
  IN  [windowStart |-> <<today[1], 0>>, windowEnd |-> <<today[1] + 30, 0>>]

\* the current window of a budget: the first and the last calendar day of it
budgetWindow(budget, now) ==
  LET today == NewDate(now)
  IN  CASE budget.period = "monthly" ->
             [windowStart |-> <<FirstOfMonth(today[1]), 0>>,
              windowEnd |-> <<LastOfMonth(today[1]), 0>>]
        [] budget.period = "yearly" ->
             [windowStart |-> <<FirstOfYear(today[1]), 0>>,
              windowEnd |-> <<LastOfYear(today[1]), 0>>]
        [] budget.period = "weekly" ->
             LET anchor == parseISO(budget.startDate)[1]
                 first == anchor + 7 * ((today[1] - anchor) \div 7)
             IN  [windowStart |-> <<first, 0>>, windowEnd |-> <<first + 6, 0>>]

\* totalInWindow(windowStart, windowEnd) over the expenses of the category
spend(budget, window) ==
  SumAmount(SelectSeq(useExpenses,
              LAMBDA e : /\ e.category = budget.category
                         /\ Between(parseISO(e.date), window.windowStart, window.windowEnd)))

evaluateBudget(budget, now) ==
  LET window == budgetWindow(budget, now)
      spent == spend(budget, window)
  IN  [windowStart |-> window.windowStart, windowEnd |-> window.windowEnd,
       spent |-> spent, limit |-> budget.amount, remaining |-> budget.amount - spent]

\* the evaluation of every active budget
BudgetOverview(now) ==
  [id \in {k \in DOMAIN budgets : budgets[k].isActive = TRUE} |-> evaluateBudget(budgets[id], now)]

\* what the budget page shows
ShowBudgets ==
  /\ last' = [op |-> "BudgetOverview", result |-> BudgetOverview(clock)]
  /\ toast' = NoToast
  /\ UNCHANGED <<expenses, budgets, categories, settings, clock, file, snap, phase>>

\* midnight passes: the clock shows the same time of the next day
DayPasses ==
  /\ NewDate(clock)[1] < MaxDays
  /\ clock' = clock + DayMs
  /\ toast' = NoToast
  /\ last' = [op |-> "dayPasses"]
  /\ UNCHANGED <<expenses, budgets, categories, settings, file, snap, phase>>

\* a bundle with a monthly, a weekly and a disabled budget of the category
\* the form's expenses have, and an expense of another category
CalendarDoc ==
  Doc([expenses |-> << [BundleExpense EXCEPT !.date = "2024-01-01"] >>,
       budgets |-> << [BundleBudget EXCEPT !.category = "food"],
                      [BundleBudget EXCEPT !.id = "b2", !.category = "food",
                                           !.period = "weekly", !.startDate = "2023-12-30"],
                      [BundleBudget EXCEPT !.id = "b3", !.isActive = FALSE] >>,
       categories |-> << BundleCategory >>, settings |-> BundleSettings, exportDate |-> 0])

\* what the user enters in the add form on the days of the calendar
CalendarFormValues ==
  { [HookExpense EXCEPT !.date = "2023-12-31", !.amount = 2],
    [HookExpense EXCEPT !.date = "2024-01-02", !.amount = 4] }

\* what the user enters in the add form when also choosing the date
DatedFormValues ==
  { [HookExpense EXCEPT !.date = "2023-12-30", !.amount = 1],
    [HookExpense EXCEPT !.date = "2023-12-31", !.amount = 2],
    [HookExpense EXCEPT !.date = "2024-01-02", !.amount = 4],
    [HookExpense EXCEPT !.date = "2024-01-07", !.amount = 8],
    [HookExpense EXCEPT !.date = "2024-02-01", !.amount = 16] }

\* bounds a caller of useExpensesByDateRange passes
DateBounds ==
  { <<"2023-12-31", "2024-01-02">>, <<"2024-01-02", "2024-01-02">>, <<"2024-01-01", "2024-01-06">> }

\* ------------------------------------------------------------------------
\* Handlers in flight: every awaited store call is one transaction, and a
\* handler creates the transaction of its next call when the one it awaits
\* completes
\* ------------------------------------------------------------------------

\* handlers that are in flight together
MaxInflight == 2

\* handlers that are in flight together with an export, the export included
MaxWithExport == 3

\* the four tables
Tables == [e |-> expenses, b |-> budgets, c |-> categories, s |-> settings]

\* an awaited call applied to the tables: the tables after it, and whether
\* its promise resolved
ApplyCall(st, call) ==
  CASE call.do = "add" ->
         LET r == TableAdd(st[call.on], call.obj)
         IN  [st |-> [st EXCEPT ![call.on] = r.table], ok |-> r.ok]
    [] call.do = "bulkAdd" ->
         LET r == TableBulkAdd(st[call.on], call.objs)
         IN  [st |-> [st EXCEPT ![call.on] = r.table], ok |-> r.ok]
    [] call.do = "update" ->
         [st |-> [st EXCEPT ![call.on] = TableUpdate(st[call.on], call.key, call.changes)],
          ok |-> TRUE]
    [] call.do = "delete" ->
         [st |-> [st EXCEPT ![call.on] = TableDelete(st[call.on], call.key)], ok |-> TRUE]
    [] call.do = "clear" ->
         [st |-> [st EXCEPT ![call.on] = TableClear(st[call.on])], ok |-> TRUE]
    [] call.do = "toArray" ->
         [st |-> st, ok |-> TRUE]

\* a handler in flight: the calls it has still to make, what its toArray
\* calls have returned, and the settings its closure holds
Handler(op, calls) == [op |-> op, calls |-> calls, read |-> << >>, closure |-> useSettings]

\* useUpdateExpense().mutate({id, updates})
updateExpenseCalls(id, updates, now) ==
  << [do |-> "update", on |-> "e", key |-> id,
      changes |-> Merge(updates, [updatedAt |-> now])] >>

\* useDeleteExpense().mutate(id)
deleteExpenseCalls(id) == << [do |-> "delete", on |-> "e", key |-> id] >>

\* useAddExpense().mutate(expense)
addExpenseCalls(expense, uuid, now) ==
  << [do |-> "add", on |-> "e",
      obj |-> Merge(expense, [id |-> uuid, createdAt |-> now, updatedAt |-> now])] >>

\* handleSettingChange(key, value)
settingChangeCalls(changes) ==
  << [do |-> "update", on |-> "s", key |-> "default", changes |-> changes] >>

\* the confirmed branch of clearAllData
clearAllDataCalls ==
  << [do |-> "clear", on |-> "e"], [do |-> "clear", on |-> "b"], [do |-> "clear", on |-> "c"],
     [do |-> "update", on |-> "s", key |-> "default", changes |-> ClearedSettings] >>

\* the confirmed branch of importData, for a document that parses to an object
importDataCalls(doc) ==
  LET data == doc.value
      bulkAdd(on, field) ==
        IF Has(data, field) THEN << [do |-> "bulkAdd", on |-> on, objs |-> data[field]] >>
                            ELSE << >>
  IN  << [do |-> "clear", on |-> "e"], [do |-> "clear", on |-> "b"], [do |-> "clear", on |-> "c"] >>
        \o bulkAdd("e", "expenses") \o bulkAdd("b", "budgets") \o bulkAdd("c", "categories")
        \o (IF Has(data, "settings")
              THEN << [do |-> "update", on |-> "s", key |-> "default", changes |-> data.settings] >>
              ELSE << >>)

\* exportData
exportDataCalls ==
  << [do |-> "toArray", on |-> "e"], [do |-> "toArray", on |-> "b"], [do |-> "toArray", on |-> "c"] >>

\* the toast a handler shows when its last call has resolved
DoneToast(op) ==
  CASE op = "addExpense" -> Success("Expense added successfully!")
    [] op = "updateExpense" -> Success("Expense updated successfully!")
    [] op = "deleteExpense" -> Success("Expense deleted successfully!")
    [] op = "importData" -> Success("Data imported successfully!")
    [] op = "clearAllData" -> Success("All data cleared successfully!")
    [] op = "exportData" -> Success("Data exported successfully!")
    [] op = "settingChange" -> NoToast

\* the toast it shows when a call has rejected
FailToast(op) ==
  CASE op = "addExpense" -> Error("Failed to add expense. Please try again.")
    [] op = "updateExpense" -> Error("Failed to update expense. Please try again.")
    [] op = "deleteExpense" -> Error("Failed to delete expense. Please try again.")
    [] op = "importData" -> ImportFailed
    [] op = "clearAllData" -> Error("Failed to clear data.")
    [] op = "exportData" -> Error("Failed to export data.")
    [] op = "settingChange" -> NoToast

Exporting(handlers) == \E i \in 1..Len(handlers) : handlers[i].op = "exportData"

\* a handler is called while fewer than limit are in flight: the transaction
\* of its first call is created
CallWithin(limit, handler) ==
  /\ Len(inflight) < limit
  /\ inflight # << >> => Len(issued.ops) < limit
  /\ inflight' = Append(inflight, handler)
  /\ issued' = [base |-> IF inflight = << >> THEN Tables ELSE issued.base,
                ops |-> IF inflight = << >> THEN <<handler>> ELSE Append(issued.ops, handler),
                seen |-> IF Exporting(inflight) THEN issued.seen \cup {Tables}
                         ELSE IF handler.op = "exportData" THEN {Tables}
                         ELSE {}]
  /\ toast' = NoToast
  /\ last' = [op |-> "call", handler |-> handler.op]
  /\ phase' = "none"
  /\ UNCHANGED <<expenses, budgets, categories, settings, clock, file, snap>>

Call(handler) == CallWithin(MaxInflight, handler)

Without(seq, i) == [j \in 1..(Len(seq) - 1) |-> IF j < i THEN seq[j] ELSE seq[j + 1]]

CanRun_AnyOrder(i) == i \in 1..Len(inflight)

\* transactions on one table run in the order in which they were created
CanRun(i) ==
  /\ i \in 1..Len(inflight)
  /\ \A j \in 1..(i - 1) : Head(inflight[j].calls).on # Head(inflight[i].calls).on

\* the call a handler awaits completes: the handler goes on to its next call,
\* or finishes when that was its last call or the call rejected
Settle(i) ==
  /\ CanRun(i)
  /\ LET handler == inflight[i]
         call == Head(handler.calls)
         r == ApplyCall(Tables, call)
         rest == Tail(handler.calls)
         read == IF call.do = "toArray"
                   THEN (call.on :> toArray(Tables[call.on])) @@ handler.read
                   ELSE handler.read
         done == ~r.ok \/ rest = << >>
         others == Without(inflight, i)
     IN  /\ expenses' = r.st.e
         /\ budgets' = r.st.b
         /\ categories' = r.st.c
         /\ settings' = r.st.s
         /\ inflight' = IF done THEN others
                        ELSE Append(others, [handler EXCEPT !.calls = rest, !.read = read])
         /\ file' = IF done /\ r.ok /\ handler.op = "exportData"
                      THEN JSONstringify([expenses |-> read.e, budgets |-> read.b,
                                          categories |-> read.c, settings |-> handler.closure,
                                          exportDate |-> clock])
                      ELSE file
         /\ toast' = IF ~done THEN NoToast
                     ELSE IF r.ok THEN DoneToast(handler.op) ELSE FailToast(handler.op)
         /\ last' = [op |-> handler.op, done |-> done, ok |-> r.ok, read |-> read,
                     closure |-> handler.closure]
         /\ issued' = [issued EXCEPT !.seen = IF Exporting(inflight) THEN @ \cup {r.st} ELSE @]
  /\ phase' = "none"
  /\ UNCHANGED <<clock, snap>>

\* a bundle whose records have other ids than those of FullDoc
OtherDoc ==
  Doc([expenses |-> << [BundleExpense EXCEPT !.id = "e2", !.amount = 9] >>,
       budgets |-> << [BundleBudget EXCEPT !.id = "b2"] >>,
       categories |-> << [BundleCategory EXCEPT !.id = "c2"] >>,
       settings |-> [BundleSettings EXCEPT !.theme = "light"], exportDate |-> 0])

\* updates two callers of the update hook pass for one expense
AmountChanges == { [amount |-> 2], [amount |-> 7] }

\* awaited store calls of importData, importFromExcel and clearAllData
ImportCalls == 7

ExcelCalls == 6

ClearCalls == 4

AddExpenseStep == \E values \in AddFormValues, uuid \in UuidPool : onSubmitAdd(values, uuid)

DeleteStep == \E id \in UuidPool, confirmed \in BOOLEAN : handleDeleteExpense(id, confirmed)

\* the store and the expense form
NextStore ==
  \/ Tick /\ UNCHANGED async
  \/ AddExpenseStep /\ UNCHANGED async
  \/ \E id \in UuidPool, updates \in ValidChanges : UpdateExpense(id, updates) /\ UNCHANGED async
  \/ \E id \in UuidPool, changes \in ValidChanges : UpdateExpenseWhole(id, changes) /\ UNCHANGED async
  \/ \E id \in UuidPool, changes \in FieldChanges : onSubmitEdit(id, changes) /\ UNCHANGED async
  \/ DeleteStep /\ UNCHANGED async

Spec == Init /\ [][NextStore]_vars

\* the settings page's imports and clear-all, over stores filled by earlier
\* imports
NextReconciler ==
  \/ \E changes \in SettingChanges : handleSettingChange(changes) /\ UNCHANGED async
  \/ \E doc \in Documents, confirmed \in BOOLEAN, failAt \in 0..ImportCalls :
        importData(doc, confirmed, failAt) /\ UNCHANGED async
  \/ \E workbook \in Workbooks, confirmed \in BOOLEAN, uuids \in RowUuids,
        failAt \in 0..ExcelCalls : importFromExcel(workbook, confirmed, uuids, failAt) /\ UNCHANGED async
  \/ \E confirmed \in BOOLEAN, failAt \in 0..ClearCalls : clearAllData(confirmed, failAt) /\ UNCHANGED async

SpecReconciler == Init /\ [][NextReconciler]_vars

\* export, clear-all and import of the exported file, over stores filled by
\* the form and by the import of a bundle
NextRoundTrip ==
  \/ AddExpenseStep /\ UNCHANGED async
  \/ \E changes \in SettingChanges : handleSettingChange(changes) /\ UNCHANGED async
  \/ exportData /\ UNCHANGED async
  \/ clearAllData(TRUE, 0) /\ UNCHANGED async
  \/ \E doc \in {FullDoc} \cup ({file} \ {NoFile}) : importData(doc, TRUE, 0) /\ UNCHANGED async

SpecRoundTrip == Init /\ [][NextRoundTrip]_vars

\* callers of the add hook other than the form
NextHook ==
  \/ Tick /\ UNCHANGED async
  \/ \E expense \in HookExpenses, uuid \in UuidPool : AddExpense(expense, uuid) /\ UNCHANGED async
  \/ DeleteStep /\ UNCHANGED async

SpecHook == Init /\ [][NextHook]_vars

\* restarts of the application (each one fires the database's 'ready' event)
\* between inserts, deletes, setting changes, imports and clear-all
NextLifecycle ==
  \/ ready /\ UNCHANGED async
  \/ AddExpenseStep /\ UNCHANGED async
  \/ DeleteStep /\ UNCHANGED async
  \/ \E changes \in SettingChanges : handleSettingChange(changes) /\ UNCHANGED async
  \/ \E doc \in Documents : importData(doc, TRUE, 0) /\ UNCHANGED async
  \/ \E workbook \in Workbooks : importFromExcel(workbook, TRUE, FirstUuids, 0) /\ UNCHANGED async
  \/ \E failAt \in 0..ClearCalls : clearAllData(TRUE, failAt) /\ UNCHANGED async

SpecLifecycle == Init /\ [][NextLifecycle]_vars

\* the totals and date filters, over expenses entered with the form
NextTotals ==
  \/ \E values \in DatedFormValues, uuid \in UuidPool : onSubmitAdd(values, uuid) /\ UNCHANGED async
  \/ \E dateRange \in DateRanges : ShowTotals(dateRange) /\ UNCHANGED async
  \/ \E dateRange \in DateRanges : ShowHomeTotals(dateRange) /\ UNCHANGED async
  \/ ShowStats /\ UNCHANGED async
  \/ \E bounds \in DateBounds : ShowDateRange(bounds[1], bounds[2]) /\ UNCHANGED async
  \/ \E dateRange \in DateRanges : ShowExpenses(dateRange) /\ UNCHANGED async
  \/ \E dateRange \in DateRanges : ShowCharts("custom", "category", dateRange) /\ UNCHANGED async

SpecTotals == Init /\ [][NextTotals]_vars

\* the charts, over expenses entered with the form or brought in by an import
NextCharts ==
  \/ AddExpenseStep /\ UNCHANGED async
  \/ \E doc \in Documents : importData(doc, TRUE, 0) /\ UNCHANGED async
  \/ \E workbook \in Workbooks : importFromExcel(workbook, TRUE, FirstUuids, 0) /\ UNCHANGED async
  \/ \E aggregation \in Aggregations, filterType \in FilterTypes :
        ShowCharts(aggregation, filterType, NoRange) /\ UNCHANGED async
  \/ ShowTotals(NoRange) /\ UNCHANGED async
  \/ ShowExpenses(NoRange) /\ UNCHANGED async

SpecCharts == Init /\ [][NextCharts]_vars

\* workbook import of sheets with missing cells, over stores filled by the form
NextWorkbook ==
  \/ Tick /\ UNCHANGED async
  \/ AddExpenseStep /\ UNCHANGED async
  \/ \E workbook \in SparseWorkbooks : importFromExcel(workbook, TRUE, ManyUuids, 0) /\ UNCHANGED async

SpecWorkbook == Init /\ [][NextWorkbook]_vars

\* workbook export followed by workbook import of the exported workbook
NextExcelRoundTrip ==
  \/ AddExpenseStep /\ UNCHANGED async
  \/ importData(FullDoc, TRUE, 0) /\ UNCHANGED async
  \/ exportToExcel /\ UNCHANGED async
  \/ \E workbook \in {w \in {file} : Has(w, "sheets")} :
        importFromExcel(workbook, TRUE, ManyUuids, 0) /\ UNCHANGED async

SpecExcelRoundTrip == Init /\ [][NextExcelRoundTrip]_vars

\* the app opened at noon of Sunday 2023-12-31, the last day of a month
InitCalendar ==
  /\ expenses = EmptyTable
  /\ budgets = EmptyTable
  /\ categories = TableBulkAdd(EmptyTable, DEFAULT_CATEGORIES).table
  /\ settings = TableAdd(EmptyTable, DefaultSettings).table
  /\ clock = 0 - 2 * DayMs
  /\ file = NoFile
  /\ toast = NoToast
  /\ last = [op |-> "ready"]
  /\ snap = << >>
  /\ phase = "none"
  /\ inflight = << >>
  /\ issued = [base |-> << >>, ops |-> << >>, seen |-> {}]

\* the totals and the budgets over the days of a week and a month that end
NextCalendar ==
  \/ Tick /\ UNCHANGED async
  \/ DayPasses /\ UNCHANGED async
  \/ importData(CalendarDoc, TRUE, 0) /\ UNCHANGED async
  \/ \E values \in CalendarFormValues, uuid \in UuidPool : onSubmitAdd(values, uuid) /\ UNCHANGED async
  \/ ShowBudgets /\ UNCHANGED async
  \/ ShowTotals(NoRange) /\ UNCHANGED async
  \/ ShowHomeTotals(NoRange) /\ UNCHANGED async
  \/ ShowStats /\ UNCHANGED async

SpecCalendar == InitCalendar /\ [][NextCalendar]_vars

\* the expense hooks called without waiting for one another
NextMutations ==
  \/ Tick /\ UNCHANGED async
  \/ Call(Handler("addExpense", addExpenseCalls(HookExpense, "u1", clock)))
  \/ \E updates \in AmountChanges :
       Call(Handler("updateExpense", updateExpenseCalls("u1", updates, clock)))
  \/ Call(Handler("deleteExpense", deleteExpenseCalls("u1")))
  \/ \E i \in 1..MaxInflight : Settle(i)

SpecMutations == Init /\ [][NextMutations]_vars

\* a JSON import in flight together with another handler
NextImports ==
  \/ \E doc \in {FullDoc, OtherDoc} : Call(Handler("importData", importDataCalls(doc)))
  \/ Call(Handler("clearAllData", clearAllDataCalls))
  \/ Call(Handler("addExpense", addExpenseCalls(HookExpense, "u1", clock)))
  \/ Call(Handler("updateExpense", updateExpenseCalls("e1", [amount |-> 2], clock)))
  \/ Call(Handler("deleteExpense", deleteExpenseCalls("e1")))
  \/ \E i \in 1..MaxInflight : Settle(i)

SpecImports == Init /\ [][NextImports]_vars

\* a JSON export in flight together with other handlers
NextExports ==
  \/ CallWithin(MaxWithExport, Handler("exportData", exportDataCalls))
  \/ CallWithin(MaxWithExport, Handler("addExpense", addExpenseCalls(HookExpense, "u1", clock)))
  \/ \E changes \in SettingChanges :
       CallWithin(MaxWithExport, Handler("settingChange", settingChangeCalls(changes)))
  \/ \E i \in 1..MaxWithExport : Settle(i)

SpecExports == Init /\ [][NextExports]_vars

\* ------------------------------------------------------------------------
\* Properties
\* ------------------------------------------------------------------------

Records(t) == {t[k] : k \in DOMAIN t}

Range(seq) == {seq[i] : i \in 1..Len(seq)}

UpdateOps == {"updateExpense", "updateExpenseWhole", "editExpense"}

ImportOps == {"importData", "importFromExcel"}

\* C1: a successful insert adds exactly one record, under a non-empty id that
\* was not in the store, holding the caller's fields, with createdAt equal to
\* updatedAt; the expense list shows it once and every record stored before
\* is unchanged.
C1_InsertAddsOneRecord ==
  [][ (last'.op = "addExpense" /\ last'.ok) =>
        \E id \in (DOMAIN expenses') \ (DOMAIN expenses) :
          /\ DOMAIN expenses' = (DOMAIN expenses) \cup {id}
          /\ id # ""
          /\ expenses'[id].id = id
          /\ \A k \in (DOMAIN last'.input) \ {"id"} : expenses'[id][k] = last'.input[k]
          /\ expenses'[id].createdAt = expenses'[id].updatedAt
          /\ \A j \in DOMAIN expenses : expenses'[j] = expenses[j]
          /\ Cardinality({i \in 1..Len(useExpenses') : useExpenses'[i].id = id}) = 1
          /\ Len(useExpenses') = Len(useExpenses) + 1 ]_vars

C1_Witness ==
  /\ last.op = "addExpense"
  /\ last.ok
  /\ Cardinality(DOMAIN expenses) = 2

\* C2: an update of an existing expense keeps its id and createdAt and makes
\* its updatedAt strictly later than it was.
C2_UpdateAdvancesUpdatedAt ==
  [][ (last'.op \in UpdateOps /\ last'.id \in DOMAIN expenses) =>
        /\ last'.id \in DOMAIN expenses'
        /\ expenses'[last'.id].id = expenses[last'.id].id
        /\ expenses'[last'.id].createdAt = expenses[last'.id].createdAt
        /\ expenses'[last'.id].updatedAt > expenses[last'.id].updatedAt ]_vars

\* C3: an update of an existing expense, the form's edit included, stores
\* every supplied field, keeps every other field, and changes no other record.
C3_UpdateMergesSuppliedFields ==
  [][ (last'.op \in UpdateOps /\ last'.id \in DOMAIN expenses) =>
        /\ DOMAIN expenses' = DOMAIN expenses
        /\ \A k \in DOMAIN last'.updates : expenses'[last'.id][k] = last'.updates[k]
        /\ \A k \in (DOMAIN expenses[last'.id]) \ ((DOMAIN last'.updates) \cup {"updatedAt"}) :
             expenses'[last'.id][k] = expenses[last'.id][k]
        /\ \A j \in (DOMAIN expenses) \ {last'.id} : expenses'[j] = expenses[j] ]_vars

\* C4: export, clear-all, import of the exported file leaves each of the four
\* collections as it was when the file was exported.
C4_RoundTrip ==
  phase = "imported" => store = snap

C4_Witness ==
  /\ phase = "imported"
  /\ Cardinality(DOMAIN expenses) = 2
  /\ DOMAIN budgets # {}
  /\ settings["default"].currency = "$"

BundleRecords(doc, key) == IF Has(doc.value, key) THEN Range(doc.value[key]) ELSE {}

BundleSettingsRecords(doc) == IF Has(doc.value, "settings") THEN {doc.value.settings} ELSE {}

\* C5: after a successful JSON import each of the four collections holds
\* exactly the records of the bundle.
C5_ImportReplacesAllFour ==
  (last.op = "importData" /\ last.outcome = "imported") =>
     /\ Records(expenses) = BundleRecords(last.doc, "expenses")
     /\ Records(budgets) = BundleRecords(last.doc, "budgets")
     /\ Records(categories) = BundleRecords(last.doc, "categories")
     /\ Records(settings) = BundleSettingsRecords(last.doc)

\* C6: a JSON import of a document that is not well-formed reports the
\* failure and leaves every collection as it was.
C6_ParseErrorBeforeMutation ==
  [][ (last'.op = "importData" /\ ~last'.doc.wellFormed) =>
        /\ store' = store
        /\ toast'.title = "Error" ]_vars

C6_Witness ==
  /\ last.op = "importData"
  /\ last.outcome = "parseError"
  /\ DOMAIN expenses # {}
  /\ DOMAIN categories # {}

\* C7: an import that fails after the collections were cleared and before
\* the bulk inserts were through leaves expenses, budgets and categories
\* empty.
C7_FailedImportLeavesStoreEmpty ==
  (last.op \in ImportOps /\ last.outcome = "failedAfterClear") =>
     /\ DOMAIN expenses = {}
     /\ DOMAIN budgets = {}
     /\ DOMAIN categories = {}

\* the toast the handler shows for a document it cannot parse
ParseErrorToast(op) == IF op = "importData" THEN ImportFailed ELSE ExcelFailed

\* C8: the outcome reported for an import that failed after the clear differs
\* from the one reported for a document that cannot be parsed.
C8_FailureAfterClearIsDistinct ==
  (last.op \in ImportOps /\ last.outcome \in {"failedAfterClear", "failedAfterAdd"}) =>
     toast # ParseErrorToast(last.op)

\* C9: JSON import, workbook import and clear-all leave every collection as
\* it was when the confirmation is declined.
C9_DeclinedLeavesStore ==
  [][ (last'.op \in ImportOps \cup {"clearAllData"} /\ ~last'.confirmed) =>
        store' = store ]_vars

C9_Witness ==
  /\ last.op = "clearAllData"
  /\ last.outcome = "declined"
  /\ DOMAIN expenses # {}
  /\ DOMAIN budgets # {}

\* C10: every stored expense has a positive amount.
C10_AmountPositive ==
  \A id \in DOMAIN expenses : expenses[id].amount > 0

\* C11: an insert of an expense that breaks a constraint of the expense
\* schema (amount not positive, paymentMethod or account outside its
\* enumeration, empty date or time) is reported as an error and leaves the
\* four tables as they were
C11_InvalidInsertRejected ==
  [][(last'.op = "addExpenseHook" /\ ~expenseFormSchema(last'.input))
       => (toast'.title = "Error" /\ store' = store)]_vars

\* C12: an update of an id that is not in the expenses table is reported as
\* an error, never as a success, stores no record and leaves the four tables
\* as they were
C12_UpdateOfAbsentIdFails ==
  [][(last'.op = "updateExpense" /\ last'.id \notin DOMAIN expenses)
       => (toast'.title = "Error" /\ store' = store)]_vars

\* C13: a confirmed delete of a stored id removes that record and no other;
\* a confirmed delete of an id that is not stored (a second delete of the
\* same id included) reports no error and leaves the expenses as they were;
\* either way the other tables are untouched
C13_DeleteRemovesExactlyOne ==
  [][(last'.op = "deleteExpense" /\ last'.confirmed)
       => /\ DOMAIN expenses' = (DOMAIN expenses) \ {last'.id}
          /\ \A k \in DOMAIN expenses' : expenses'[k] = expenses[k]
          /\ (last'.id \notin DOMAIN expenses) => (expenses' = expenses)
          /\ toast'.title # "Error"
          /\ <<budgets', categories', settings'>> = <<budgets, categories, settings>>]_vars

\* a stored record was deleted while another one stayed
C13_Witness ==
  /\ last.op = "deleteExpense"
  /\ last.confirmed
  /\ last.existed
  /\ expenses # EmptyTable

\* C14: the default categories and the default settings record are seeded
\* once in the lifetime of the database: a 'ready' event after the first one
\* (the one the initial state results from) adds nothing to the categories
\* and nothing to the settings
C14_SeededAtMostOnce ==
  [][(last'.op = "ready") => (categories' = categories /\ settings' = settings)]_vars

RECURSIVE SumOf(_)
SumOf(keys) ==
  IF keys = {}
    THEN 0
    ELSE LET k == CHOOSE j \in keys : TRUE
         IN  expenses[k].amount + SumOf(keys \ {k})

\* keys of the expenses dated from day a through day b
Dated(a, b) ==
  {k \in DOMAIN expenses :
     /\ expenses[k].date \in DOMAIN DayOfDate
     /\ a <= DayOfDate[expenses[k].date]
     /\ DayOfDate[expenses[k].date] <= b}

Ids(list) == {list[i].id : i \in 1..Len(list)}

BothEnds(dateRange) ==
  dateRange # NoRange /\ dateRange.from # << >> /\ dateRange.to # << >>

TodayDay == DayOfDate[ISODate(clock)]

SundayOnOrBefore(day) == day - (day % 7)

\* C17: the week total is the sum of the amounts of the expenses dated from
\* the Sunday on or before today through the Saturday after it, and the month
\* total the sum of those dated from the first through the last day of
\* today's month
C17_WeekAndMonthTotals ==
  (last.op \in {"useExpenseStats", "useExpenseTotals", "StatsOverview"})
    => /\ last.totals.weekTotal =
            SumOf(Dated(SundayOnOrBefore(TodayDay), SundayOnOrBefore(TodayDay) + 6))
       /\ last.totals.monthTotal =
            SumOf(Dated(FirstOfMonth(TodayDay), LastOfMonth(TodayDay)))

\* keys of the expenses of a custom window: to defaults to from, from
\* defaults to the beginning of time
Window(dateRange) ==
  Dated(IF dateRange.from # << >> THEN dateRange.from[1][1] ELSE Epoch[1],
        IF dateRange.to # << >> THEN dateRange.to[1][1] ELSE dateRange.from[1][1])

\* C18: with a custom range, the range total, the list of the expenses page
\* and the charts select the expenses dated from `from` (or from the
\* beginning of time) through `to` (or through `from`), and no other
C18_CustomWindow ==
  /\ (last.op = "useExpenseTotals" /\ last.dateRange # NoRange)
       => last.totals.rangeTotal = SumOf(Window(last.dateRange))
  /\ (last.op = "filteredExpenses" /\ last.dateRange # NoRange)
       => /\ Ids(last.result) = Window(last.dateRange)
          /\ last.totalAmount = SumOf(Window(last.dateRange))
  /\ (last.op = "ExpenseCharts" /\ last.aggregation = "custom" /\ last.dateRange # NoRange)
       => Ids(last.result) = Window(last.dateRange)

\* keys of the expenses of the window the charts show
ChartWindow ==
  LET i == interval(last.aggregation, last.dateRange, clock)
  IN  Dated(i.start[1], i.end[1])

\* C19: the grouped totals of the charts have one entry for each value of the
\* chosen dimension that occurs among the window's expenses and no other
\* entry, each entry's value is the sum of the amounts of the window's
\* expenses with that value, and no entry's value is zero
C19_GroupedTotals ==
  (last.op = "ExpenseCharts")
    => LET data == last.chartData
           dim == last.filterType
       IN  /\ {data[j].name : j \in 1..Len(data)} = {expenses[k][dim] : k \in ChartWindow}
           /\ \A i, j \in 1..Len(data) : data[i].name = data[j].name => i = j
           /\ \A j \in 1..Len(data) :
                 data[j].value = SumOf({k \in ChartWindow : expenses[k][dim] = data[j].name})
           /\ \A j \in 1..Len(data) : data[j].value # 0

Orphaned == {k \in DOMAIN expenses : expenses[k].category \notin DOMAIN categories}

\* C20: an expense whose category is not in the categories table is listed
\* with its category as stored, its amount is part of the totals, and the
\* by-category breakdown has exactly one entry under its category id, whose
\* value is the sum of the amounts of the window's expenses with that id
C20_OrphanedCategoryKept ==
  /\ (last.op = "filteredExpenses" /\ last.dateRange = NoRange)
       => \A k \in Orphaned : \E i \in 1..Len(last.result) : last.result[i] = expenses[k]
  /\ (last.op = "useExpenseTotals")
       => last.totals.monthTotal =
            SumOf(Dated(FirstOfMonth(TodayDay), LastOfMonth(TodayDay)))
  /\ (last.op = "ExpenseCharts" /\ last.filterType = "category")
       => \A k \in Orphaned \cap ChartWindow :
             LET at == {j \in 1..Len(last.chartData) :
                          last.chartData[j].name = expenses[k].category}
             IN  /\ Cardinality(at) = 1
                 /\ \A j \in at :
                       last.chartData[j].value =
                         SumOf({o \in ChartWindow : expenses[o].category = expenses[k].category})

\* the by-category breakdown of a window with an expense of a category that
\* is not stored and an expense of another category
C20_Witness ==
  /\ last.op = "ExpenseCharts"
  /\ last.filterType = "category"
  /\ Orphaned \cap ChartWindow # {}
  /\ Len(last.chartData) >= 2

\* ------------------------------------------------------------------------
\* Workbook import and export
\* ------------------------------------------------------------------------

\* the cell of a row, or the default when the row has no such cell
CellOr(row, col, default) == IF col \in DOMAIN row THEN row[col] ELSE default

\* the rows of a sheet, none when the workbook has no such sheet
RowsOf(workbook, sheet) ==
  IF sheet \in DOMAIN workbook.sheets THEN workbook.sheets[sheet] ELSE << >>

\* the stored expense has the cells of the row, and the default for each
\* cell the row lacks
ExpenseRowStored(row, expense, today) ==
  /\ expense.date = CellOr(row, "Date", today)
  /\ expense.time = CellOr(row, "Time", "00:00")
  /\ expense.amount = (IF "Amount" \in DOMAIN row /\ "num" \in DOMAIN row.Amount
                         THEN row.Amount.num ELSE 0)
  /\ expense.category = CellOr(row, "Category", "other")
  /\ expense.paymentMethod = CellOr(row, "Payment Method", "UPI")
  /\ expense.account = CellOr(row, "Account", "Other")

BudgetRowStored(row, budget) ==
  budget.isActive = ("Is Active" \in DOMAIN row /\ row["Is Active"] = "Yes")

SheetsStored(workbook, uuids, today) ==
  LET e == RowsOf(workbook, "Expenses")
      b == RowsOf(workbook, "Budgets")
  IN  /\ DOMAIN expenses' = {uuids.e[i] : i \in 1..Len(e)}
      /\ Cardinality(DOMAIN expenses') = Len(e)
      /\ \A i \in 1..Len(e) : ExpenseRowStored(e[i], expenses'[uuids.e[i]], today)
      /\ DOMAIN budgets' = {uuids.b[i] : i \in 1..Len(b)}
      /\ Cardinality(DOMAIN budgets') = Len(b)
      /\ \A i \in 1..Len(b) : BudgetRowStored(b[i], budgets'[uuids.b[i]])

\* C21: a workbook import stores one record for every row of the Expenses and
\* Budgets sheets, whatever cells the row lacks; each missing cell takes its
\* default (today's date, '00:00', amount 0 when the cell does not parse,
\* 'other', 'UPI', 'Other'), and a budget is active exactly when its
\* 'Is Active' cell is the text 'Yes'.
C21_RowsNeverSkipped ==
  [][\A workbook \in SparseWorkbooks :
       importFromExcel(workbook, TRUE, ManyUuids, 0)
         => /\ last'.outcome = "imported"
            /\ SheetsStored(workbook, ManyUuids, ISODate(clock))]_vars

C21_Witness ==
  /\ last.op = "importFromExcel"
  /\ last.outcome = "imported"
  /\ Cardinality(DOMAIN expenses) = 2
  /\ \E id \in DOMAIN expenses : expenses[id].category = "other"
  /\ \E id \in DOMAIN budgets : ~budgets[id].isActive

\* the one-to-one maps from a onto b
Bijections(a, b) ==
  {f \in [a -> b] : /\ \A x, y \in a : f[x] = f[y] => x = y
                    /\ {f[x] : x \in a} = b}

\* an optional text of a record, '' when it has none
TextOf(obj, field) == IF field \in DOMAIN obj THEN obj[field] ELSE ""

\* the imported expense has the values of the exported one
SameValues(exported, imported) ==
  /\ \A field \in {"date", "time", "amount", "category", "paymentMethod", "account", "createdAt"} :
       /\ field \in DOMAIN exported
       /\ field \in DOMAIN imported
       /\ imported[field] = exported[field]
  /\ \A field \in {"items", "where", "note"} :
       TextOf(imported, field) = TextOf(exported, field)

\* C22: after a workbook export and the import of the exported workbook, the
\* imported expenses carry the identifiers drawn at the import and correspond
\* one to one to the exported expenses, each with the same date, time,
\* amount, category, items, where, paymentMethod, account, note and
\* createdAt (an optional text that was not set reads as '').
C22_WorkbookRoundTrip ==
  phase = "importedExcel"
    => /\ DOMAIN expenses = {ManyUuids.e[i] : i \in 1..Cardinality(DOMAIN snap[1])}
       /\ \E f \in Bijections(DOMAIN snap[1], DOMAIN expenses) :
            \A id \in DOMAIN snap[1] : SameValues(snap[1][id], expenses[f[id]])

C22_Witness ==
  /\ phase = "importedExcel"
  /\ Cardinality(DOMAIN snap[1]) = 3
  /\ DOMAIN snap[1] # DOMAIN expenses
  /\ \E id \in DOMAIN snap[1] : "where" \notin DOMAIN snap[1][id]

\* C26: after a workbook export and the import of the exported workbook,
\* every expense and budget whose category was the id of a stored category
\* before the export has the id of a stored category as its category.
C26_CategoryReferencesKept ==
  phase = "importedExcel"
    => /\ \A id \in DOMAIN expenses :
            expenses[id].category \in DOMAIN snap[3]
              => expenses[id].category \in DOMAIN categories
       /\ \A id \in DOMAIN budgets :
            budgets[id].category \in DOMAIN snap[3]
              => budgets[id].category \in DOMAIN categories

\* C29: every stored expense and budget has createdAt <= updatedAt.
C29_CreatedBeforeUpdated ==
  /\ \A id \in DOMAIN expenses : expenses[id].createdAt <= expenses[id].updatedAt
  /\ \A id \in DOMAIN budgets : budgets[id].createdAt <= budgets[id].updatedAt

\* ------------------------------------------------------------------------
\* Charts and totals
\* ------------------------------------------------------------------------

\* the sum of the values of a grouped breakdown
RECURSIVE SumValues(_)
SumValues(data) == IF data = << >> THEN 0 ELSE Head(data).value + SumValues(Tail(data))

\* the total the totals hook computes for the window of the charts
HookTotal(aggregation, dateRange) ==
  LET totals == useExpenseTotals(dateRange, clock)
  IN  CASE aggregation = "today" -> totals.todayTotal
        [] aggregation = "week" -> totals.weekTotal
        [] aggregation = "month" -> totals.monthTotal
        [] aggregation = "custom" -> totals.rangeTotal

\* C30: the values of the grouped breakdown of the charts sum to the total
\* the totals hook computes for the same window (today, this week, this
\* month or the custom range), whichever dimension groups them.
C30_ChartsSumToWindowTotal ==
  (last.op = "ExpenseCharts" /\ last.aggregation # "year")
    => SumValues(last.chartData) = HookTotal(last.aggregation, last.dateRange)

\* ------------------------------------------------------------------------
\* Calendar: budgets and totals
\* ------------------------------------------------------------------------

\* the calendar month of a day
MonthOf(day) ==
  IF day < -30 THEN "2023-11"
  ELSE IF day <= 0 THEN "2023-12"
  ELSE IF day <= 31 THEN "2024-01"
  ELSE IF day <= 60 THEN "2024-02"
  ELSE "2024-03"

\* the days from 2023-11-26 through 2024-03-05
CalendarDays == -35..65

\* keys of the expenses of a category dated in a month
InMonth(category, month) ==
  {k \in DOMAIN expenses :
     /\ expenses[k].category = category
     /\ expenses[k].date \in DOMAIN DayOfDate
     /\ MonthOf(DayOfDate[expenses[k].date]) = month}

\* C24: whatever the day on which a monthly budget is evaluated, its window
\* runs from the first through the last day of the calendar month of that
\* day (so two days of one month give the same window and a day of the next
\* month another one), and spent is the sum of the expenses of the budget's
\* category dated in that month.
C24_MonthlyWindow ==
  last.op = "BudgetOverview"
    => \A id \in DOMAIN last.result :
         budgets[id].period = "monthly"
           => LET r == last.result[id]
                  month == MonthOf(NewDate(clock)[1])
              IN  /\ \A d \in CalendarDays :
                        (r.windowStart[1] <= d /\ d <= r.windowEnd[1]) <=> MonthOf(d) = month
                  /\ r.spent = SumOf(InMonth(budgets[id].category, month))

C24_Witness ==
  /\ last.op = "BudgetOverview"
  /\ NewDate(clock)[1] = 2
  /\ \E id \in DOMAIN last.result :
       /\ budgets[id].period = "monthly"
       /\ last.result[id].spent = 4
       /\ InMonth(budgets[id].category, "2023-12") # {}

\* C25: the totals shown together have todayTotal <= weekTotal and
\* todayTotal <= monthTotal, whatever the day.
C25_TodayWithinWeekAndMonth ==
  (last.op \in {"useExpenseTotals", "useExpenseStats", "StatsOverview"})
    => /\ last.totals.todayTotal <= last.totals.weekTotal
       /\ last.totals.todayTotal <= last.totals.monthTotal

\* ------------------------------------------------------------------------
\* Handlers in flight
\* ------------------------------------------------------------------------

\* the calls of a handler made one after the other, up to one that rejects
RECURSIVE RunCalls(_, _)
RunCalls(st, calls) ==
  IF calls = << >>
    THEN st
    ELSE LET r == ApplyCall(st, Head(calls))
         IN  IF r.ok THEN RunCalls(r.st, Tail(calls)) ELSE r.st

\* the handlers run one after the other, each to its end
RECURSIVE RunInOrder(_, _)
RunInOrder(st, ops) ==
  IF ops = << >> THEN st ELSE RunInOrder(RunCalls(st, Head(ops).calls), Tail(ops))

\* the handlers were all called before the first of them finished, and all
\* have finished
AllSettled == inflight = << >> /\ Len(issued.ops) >= 2

\* every handler called is an update or a delete of the expense id
SameExpense(id) ==
  \A i \in 1..Len(issued.ops) :
    /\ issued.ops[i].op \in {"updateExpense", "deleteExpense"}
    /\ issued.ops[i].calls[1].key = id

\* C23: when updates and deletes of one expense id are called one after the
\* other without waiting, the tables end as if each had run to its end
\* before the next was called.
C23_SameIdInIssuanceOrder ==
  (AllSettled /\ \E id \in UuidPool : SameExpense(id))
    => Tables = RunInOrder(issued.base, issued.ops)

C23_Witness ==
  /\ AllSettled
  /\ SameExpense("u1")
  /\ "u1" \in DOMAIN issued.base.e
  /\ issued.ops[1].op = "updateExpense"
  /\ issued.ops[2].op = "updateExpense"
  /\ issued.ops[1].calls[1].changes.amount # issued.ops[2].calls[1].changes.amount
  /\ expenses["u1"].amount = issued.ops[2].calls[1].changes.amount

\* C27: when a JSON import and another handler were in flight together, the
\* tables end as if the two had run one after the other, in one order or the
\* other.
C27_ImportSerializable ==
  (/\ inflight = << >>
   /\ Len(issued.ops) = 2
   /\ \E i \in 1..2 : issued.ops[i].op = "importData")
    => \/ Tables = RunInOrder(issued.base, issued.ops)
       \/ Tables = RunInOrder(issued.base, <<issued.ops[2], issued.ops[1]>>)

\* the bundle an export wrote holds the contents of the four tables st
BundleOf(st) ==
  /\ last.read.e = toArray(st.e)
  /\ last.read.b = toArray(st.b)
  /\ last.read.c = toArray(st.c)
  /\ last.closure = (IF "default" \in DOMAIN st.s THEN <<st.s["default"]>> ELSE << >>)

\* C28: the bundle of a JSON export holds the contents the four tables had
\* together at one moment between the call of the export and its end,
\* whatever other handlers were in flight with it.
C28_ExportIsSnapshot ==
  (/\ last.op = "exportData"
   /\ last.done
   /\ last.ok
   /\ Cardinality({i \in 1..Len(issued.ops) : issued.ops[i].op = "exportData"}) = 1)
    => \E st \in issued.seen : BundleOf(st)

====
